---- MODULE Spec2Model ----
(***************************************************************************)
(* A model of the query lifecycle and of the compressed-download result    *)
(* cursor of speee/go-athena: conn.runQuery, conn.waitOnQuery,             *)
(* conn.dropCTASTable (conn.go) and rowsGzipDL.init with its two           *)
(* goroutines, getObjectKeysForGzip and getRecordsFromGzip (rows_gzip.go). *)
(*                                                                         *)
(* Byte strings are sequences of integers 0..255.  Query texts are         *)
(* sequences of one-character strings.                                     *)
(***************************************************************************)
EXTENDS Integers, Sequences, FiniteSets, TLC

(***************************************************************************)
(* Bounds of the model.                                                    *)
(***************************************************************************)
\* longest decoder input, in bytes
MaxLen == 5
\* most data objects a manifest lists
MaxObjects == 2
\* most status polls one waitOnQuery call makes before the model stops it
MaxPolls == 4
MaxPieces == 3
MaxCloses == 2
MaxNexts == 8
\* most calls of Next that fail in the row conversion
MaxConvertErrs == 1

Nil == "nil"

(***************************************************************************)
(* Bytes.                                                                  *)
(***************************************************************************)
SOH == 1
LF == 10
CR == 13
Slash == 47

\* utf8.RuneError, U+FFFD
RuneError == 65533

\* the bytes decoder inputs are drawn from: the separator, the two line-end
\* bytes, the ASCII letters "a" (97) and "b" (98), and the two bytes 195, 169
\* of U+00E9 (each of which is an invalid encoding when it stands alone)
Bytes == {SOH, LF, CR, 97, 98, 195, 169}

BoundedSeq(S, n) == UNION {[1..k -> S] : k \in 0..n}

Tail2(s, n) == SubSeq(s, n + 1, Len(s))

(***************************************************************************)
(* unicode/utf8 as getRecordsFromGzip uses it (encodings of up to two      *)
(* bytes; the alphabet holds no lead byte of a longer encoding).           *)
(***************************************************************************)
IsCont(b) == b >= 128 /\ b <= 191

DecodeRune(b) ==
    IF Len(b) = 0 THEN [rune |-> RuneError, width |-> 0]
    ELSE IF b[1] < 128 THEN [rune |-> b[1], width |-> 1]
    ELSE IF b[1] >= 194 /\ b[1] <= 223 /\ Len(b) >= 2 /\ IsCont(b[2])
         THEN [rune |-> (b[1] - 192) * 64 + (b[2] - 128), width |-> 2]
    ELSE [rune |-> RuneError, width |-> 1]

\* string(r): the UTF-8 encoding of a rune
EncodeRune(r) ==
    IF r < 128 THEN <<r>>
    ELSE IF r < 2048 THEN <<192 + (r \div 64), 128 + (r % 64)>>
    ELSE <<224 + (r \div 4096), 128 + ((r \div 64) % 64), 128 + (r % 64)>>

(***************************************************************************)
(* bufio.Scanner with the default split function, bufio.ScanLines, over a  *)
(* reader that delivers all of data: one token per LF-terminated line and  *)
(* one for a non-empty unterminated rest, each without a trailing CR.      *)
(***************************************************************************)
IndexByte(s, c) ==
    IF \E i \in 1..Len(s) : s[i] = c
    THEN CHOOSE i \in 1..Len(s) : s[i] = c /\ \A j \in 1..(i - 1) : s[j] # c
    ELSE 0

dropCR(s) ==
    IF Len(s) > 0 /\ s[Len(s)] = CR THEN SubSeq(s, 1, Len(s) - 1) ELSE s

RECURSIVE ScanLines(_)
ScanLines(data) ==
    IF Len(data) = 0 THEN <<>>
    ELSE LET i == IndexByte(data, LF)
         IN IF i > 0
            THEN <<dropCR(SubSeq(data, 1, i - 1))>> \o ScanLines(Tail2(data, i))
            ELSE <<dropCR(data)>>

(***************************************************************************)
(* getRecordsFromGzip: the inner loop over one line, then one record per   *)
(* scanned line.  The function returns no error on any input.              *)
(***************************************************************************)
RECURSIVE DecodeRecord(_, _, _)
DecodeRecord(b, field, record) ==
    LET d == DecodeRune(b)
        record2 == IF d.rune = SOH THEN Append(record, field) ELSE record
        field2 == IF d.rune = SOH THEN <<>> ELSE field \o EncodeRune(d.rune)
    IN IF d.width >= Len(b)
       THEN Append(record2, field2)
       ELSE DecodeRecord(Tail2(b, d.width), field2, record2)

getRecordsFromGzip(data) ==
    LET lines == ScanLines(data)
    IN [i \in 1..Len(lines) |-> DecodeRecord(lines[i], <<>>, <<>>)]


(***************************************************************************)
(* Query texts and the query classifier (conn.go).                         *)
(***************************************************************************)
LowerLetters == <<"a", "b", "c", "d", "e", "f", "g", "h", "i", "j", "k", "l", "m",
                  "n", "o", "p", "q", "r", "s", "t", "u", "v", "w", "x", "y", "z">>
UpperLetters == <<"A", "B", "C", "D", "E", "F", "G", "H", "I", "J", "K", "L", "M",
                  "N", "O", "P", "Q", "R", "S", "T", "U", "V", "W", "X", "Y", "Z">>

\* the two runes outside ASCII that (?i) folds onto an ASCII letter: each
\* stands for one character of a text
LongS == "U+017F"
KelvinSign == "U+212A"

\* the case folding of the (?i) flag on the letters of the model's texts
ToUpper(c) ==
    IF c = LongS THEN "S"
    ELSE IF c = KelvinSign THEN "K"
    ELSE IF \E i \in 1..26 : LowerLetters[i] = c
    THEN UpperLetters[CHOOSE i \in 1..26 : LowerLetters[i] = c]
    ELSE c

\* text t has keyword kw (upper case) at position p, ignoring case
MatchAt(t, p, kw) ==
    /\ p >= 1
    /\ p + Len(kw) - 1 <= Len(t)
    /\ \A i \in 1..Len(kw) : ToUpper(t[p + i - 1]) = kw[i]

KwAlter == <<"A", "L", "T", "E", "R">>
KwCreate == <<"C", "R", "E", "A", "T", "E">>
KwDescribe == <<"D", "E", "S", "C", "R", "I", "B", "E">>
KwDrop == <<"D", "R", "O", "P">>
KwMsck == <<"M", "S", "C", "K">>
KwShow == <<"S", "H", "O", "W">>
KwSelect == <<"S", "E", "L", "E", "C", "T">>
KwAs == <<"A", "S">>

IsSpace(c) == c \in {" ", "\t", "\n", "\r", "\f"}

\* (?i)^(ALTER|CREATE|DESCRIBE|DROP|MSCK|SHOW)
ddlQueryPattern(t) ==
    \E kw \in {KwAlter, KwCreate, KwDescribe, KwDrop, KwMsck, KwShow} : MatchAt(t, 1, kw)

\* (?i)^SELECT
selectQueryPattern(t) == MatchAt(t, 1, KwSelect)

\* (?i)^CREATE.+AS\s+SELECT
ctasQueryPattern(t) ==
    /\ MatchAt(t, 1, KwCreate)
    /\ \E p \in 8..Len(t) : \E q \in (p + 3)..Len(t) :
          /\ \A i \in 7..(p - 1) : t[i] # "\n"
          /\ MatchAt(t, p, KwAs)
          /\ \A i \in (p + 2)..(q - 1) : IsSpace(t[i])
          /\ MatchAt(t, q, KwSelect)

queryTypeUnknown == "Unknown"
queryTypeDDL == "DDL"
queryTypeSelect == "SELECT"
queryTypeCTAS == "CTAS"

\* getQueryType with the CTAS case tried before the DDL case
getQueryType_CTASFirst(t) ==
    IF ctasQueryPattern(t) THEN queryTypeCTAS
    ELSE IF ddlQueryPattern(t) THEN queryTypeDDL
    ELSE IF selectQueryPattern(t) THEN queryTypeSelect
    ELSE queryTypeUnknown

getQueryType(t) ==
    IF ddlQueryPattern(t) THEN queryTypeDDL
    ELSE IF ctasQueryPattern(t) THEN queryTypeCTAS
    ELSE IF selectQueryPattern(t) THEN queryTypeSelect
    ELSE queryTypeUnknown

isDDLQuery(t) == getQueryType(t) = queryTypeDDL

isSelectQuery(t) == getQueryType(t) = queryTypeSelect

\* the texts a caller passes to runQuery in this model
QSelect == <<"S", "E", "L", "E", "C", "T", " ", "1">>
QSelectLower == <<"s", "e", "l", "e", "c", "t", " ", "1">>
QShow == <<"S", "H", "O", "W", " ", "T", "A", "B", "L", "E", "S">>
QCtas == <<"C", "R", "E", "A", "T", "E", " ", "T", "A", "B", "L", "E", " ", "t", " ", "A", "S", " ", "S", "E", "L", "E", "C", "T", " ", "1">>
QInsert == <<"I", "N", "S", "E", "R", "T", " ", "I", "N", "T", "O", " ", "t", " ", "V", "A", "L", "U", "E", "S", " ", "1">>
QSpaceSelect == <<" ", "S", "E", "L", "E", "C", "T", " ", "1">>

Queries == {QSelect, QSelectLower, QShow, QCtas, QInsert, QSpaceSelect}

\* the pieces the texts handed to the classifier alone are put together from
Pieces ==
    {KwAlter, KwCreate, KwDescribe, KwDrop, KwMsck, KwShow, KwSelect,
     <<"s", "e", "l", "e", "c", "t">>, <<"c", "r", "e", "a", "t", "e">>,
     <<"S", "h", "o", "w">>,
     <<LongS, "E", "L", "E", "C", "T">>, <<"M", "S", "C", KelvinSign>>,
     <<"S", "E", "L", "E", "C">>, <<"C", "R", "E", "A", "T">>,
     <<" ", "A", "S", " ">>, <<" ", "a", "s", "\n">>,
     <<" ">>, <<"\n">>, <<"x">>}

RECURSIVE Concat(_)
Concat(ps) == IF ps = <<>> THEN <<>> ELSE Head(ps) \o Concat(Tail(ps))

\* every text of up to MaxPieces pieces
ClassifyTexts == {Concat(ps) : ps \in BoundedSeq(Pieces, MaxPieces)}

\* the name runQuery generates for the temporary table ("tmp_ctas_" and a
\* UUID without dashes; one query per behaviour, so one name)
TmpTable == <<"t", "m", "p", "_", "c", "t", "a", "s", "_", "1">>

CtasHead == <<"C", "R", "E", "A", "T", "E", " ", "T", "A", "B", "L", "E", " ">>
CtasMid == <<" ", "W", "I", "T", "H", " ", "(", "f", "o", "r", "m", "a", "t", "=", "'", "T", "E", "X", "T", "F", "I", "L", "E", "'", ")", " ", "A", "S", " ">>
PrepareKey == <<"t", "m", "p", "_", "p", "r", "e", "p", "a", "r", "e", "_", "1">>
PrepareHead == <<"P", "R", "E", "P", "A", "R", "E", " ">>
PrepareMid == <<" ", "F", "R", "O", "M", " ">>

\* fmt.Sprintf("PREPARE %s FROM %s", prepareKey, query)
PrepareText(key, t) == PrepareHead \o key \o PrepareMid \o t

DropHead == <<"D", "R", "O", "P", " ", "T", "A", "B", "L", "E", " ">>

\* fmt.Sprintf("CREATE TABLE %s WITH (format='TEXTFILE') AS %s", ctasTable, query)
CtasText(table, t) == CtasHead \o table \o CtasMid \o t

\* fmt.Sprintf("DROP TABLE %s", table)
DropText(table) == DropHead \o table

(***************************************************************************)
(* Result modes.                                                           *)
(***************************************************************************)
ResultModeAPI == "api"
ResultModeDL == "dl"
ResultModeGzipDL == "gzip"
\* a value of type ResultMode outside the enumeration
ResultModeBogus == "bogus"

\* isValidResultMode with every value accepted
isValidResultMode_AcceptAll(mode) == TRUE

isValidResultMode(mode) == mode \in {ResultModeAPI, ResultModeDL, ResultModeGzipDL}

isCreatingCTASTable_IgnoreMode(isSelect, resultMode) == isSelect

isCreatingCTASTable(isSelect, resultMode) == isSelect /\ resultMode = ResultModeGzipDL

\* checkOutputLocation: an empty output location has to be resolved from the
\* workgroup for the modes that download the result
checkOutputLocation(resultMode, outputLocation) ==
    resultMode # ResultModeAPI /\ outputLocation = <<>>

(***************************************************************************)
(* The object store and the manifest of a compressed export.               *)
(***************************************************************************)
\* "s3://b": the output location, and the same with a trailing slash
Location == <<115, 51, 58, 47, 47, 98>>
\* the capacity of init's channel: make(chan error, 2)
ErrChCap == 2

LocationSlash == Location \o <<Slash>>

\* object keys "t1", "t2", "t3", "t4"
T1 == <<116, 49>>
T2 == <<116, 50>>
T3 == <<116, 51>>
TBad == <<116, 52>>

Keys == {T1, T2, T3, TBad}

\* what the store holds under each key: whether the bytes start with a gzip
\* header, and the bytes the gzip reader delivers.  t1 holds three lines,
\* t2 two, t3 none, t4 is not a gzip stream.
ObjectStore(k) ==
    IF k = T1 THEN [gzip |-> TRUE, payload |-> <<97, SOH, 98, LF, 98, LF, 97>>]
    ELSE IF k = T2 THEN [gzip |-> TRUE, payload |-> <<98, 98, LF, SOH, LF>>]
    ELSE IF k = T3 THEN [gzip |-> TRUE, payload |-> <<>>]
    ELSE [gzip |-> FALSE, payload |-> <<>>]

\* the manifest the engine writes for the data objects ks: one line per
\* object, "<location>/<key>"
RECURSIVE ManifestOf(_)
ManifestOf(ks) ==
    IF Len(ks) = 0 THEN <<>>
    ELSE Location \o <<Slash>> \o Head(ks) \o <<LF>> \o ManifestOf(Tail(ks))

\* getObjectKeysForGzip: one key per scanned line, without its first start
\* bytes when the line is longer than that
getObjectKeysForGzip(data, start) ==
    LET lines == ScanLines(data)
    IN [j \in 1..Len(lines) |->
          IF start > 0 /\ Len(lines[j]) > start THEN Tail2(lines[j], start) ELSE lines[j]]

\* downloadCompressedData, lines 96-98: the location without a trailing slash
TrimLocation(location) ==
    IF location[Len(location)] = Slash
    THEN SubSeq(location, 1, Len(location) - 1) ELSE location

(***************************************************************************)
(* Errors and remote states.                                               *)
(***************************************************************************)
ErrInvalidResultMode == "ErrInvalidResultMode"
ContextCanceled == "context.Canceled"
ContextDeadlineExceeded == "context.DeadlineExceeded"
\* what an SDK call returns when its context is done
SdkCanceled == "sdk: request canceled"
SubmitErr == "sdk: StartQueryExecution failed"
StatusErr == "sdk: GetQueryExecution failed"
LocationErr == "getOutputLocation failed"
DownloadErr == "s3: GetObject failed"
GzipErr == "gzip: invalid header"
MetadataErr == "sdk: GetTableMetadata failed"
RowsErr == "newRows failed"
NilDeref == "panic: nil pointer dereference"
StmtAthena == "&stmtAthena"
EOF == "io.EOF"
ConvertErr == "convertRowFromTableInfo failed"
Reason1 == "SYNTAX_ERROR: line 1"

Queued == "QUEUED"
Running == "RUNNING"
Succeeded == "SUCCEEDED"
Failed == "FAILED"
Cancelled == "CANCELLED"

Terminal == {Succeeded, Failed, Cancelled}

\* the states the engine can report at a status check, given the last one
NextStates(s) ==
    IF s = Queued THEN {Queued, Running, Succeeded, Failed, Cancelled}
    ELSE {Running, Succeeded, Failed, Cancelled}

\* Status.StateChangeReason of a failed execution: a text, or absent
Reasons == {Reason1, Nil}

Columns == <<"col1">>

VARIABLES
    callerQuery,       \* the text the caller passed
    connResultMode,    \* c.resultMode
    ctxResultMode,     \* the result mode set in the context, or Nil
    outputLocation,    \* c.OutputLocation
    ctxErr,            \* ctx.Err() of the caller's context (Nil: not done)
    pc,                \* position of runQuery
    query,             \* runQuery's variable query
    resultMode,        \* runQuery's variable resultMode
    ctasTable,         \* runQuery's variable ctasTable
    afterDownload,     \* whether runQuery's afterDownload is non-nil
    result,            \* what runQuery returned
    submitted,         \* the texts handed to StartQueryExecution, in order
    ctasSucceeded,     \* the CTAS execution was seen to succeed
    wpc,               \* position of waitOnQuery
    wret,              \* what waitOnQuery returns
    observed,          \* the states this waitOnQuery call has been told
    polls,             \* GetQueryExecution calls of this waitOnQuery call
    outstanding,       \* status checks in flight
    stopCalls,         \* StopQueryExecution calls of this waitOnQuery call
    execState,         \* the last state the engine reported
    execReason,        \* the reason the engine reported with Failed
    ipc,               \* position of rowsGzipDL.init
    i,                 \* init's loop counter
    errCh,             \* init's channel err (capacity 2)
    initCtxErr,        \* ctx.Err() of init's timeout context
    iret,              \* what init returns
    afterDownloadCalls,\* invocations of cfg.AfterDownload
    dpc,               \* position of the download goroutine
    dres,              \* what downloadCompressedData returns
    listing,           \* the data objects the engine wrote, in its order
    manifest,          \* the manifest object's bytes
    objectKeys,        \* downloadCompressedData's objectKeys
    dIdx,              \* index of the next object to fetch
    fetched,           \* the keys fetched from the store, in order
    downloadedRows,    \* r.downloadedRows (alloc: the pointer is not nil)
    tpc,               \* position of the metadata goroutine
    tres,              \* what the metadata goroutine is about to send
    ctasTableColumns,  \* r.ctasTableColumns (a nil slice is the empty one)
    input,             \* the bytes handed to getRecordsFromGzip
    records,           \* what getRecordsFromGzip returned
    decoded,           \* whether getRecordsFromGzip has run
    queryType,         \* what getQueryType returned for callerQuery, or Nil
    skipHeader,        \* rowsConfig.SkipHeader as runQuery set it
    closed,            \* what the calls of rowsGzipDL.Close returned, in order
    nexts,             \* what the calls of rowsGzipDL.Next returned, in order
    stmt,              \* PrepareContext's variable stmt (Nil: the nil interface)
    perr,              \* PrepareContext's variable err
    stmtCloses,        \* the values of stmt that Close was called on, in order
    prepared,          \* what PrepareContext returned
    tableCalls,        \* GetTableMetadata calls of the metadata goroutine
    sent,              \* the values sent on init's channel, by goroutine
    received,          \* the values init's select has received, in order
    atDeadline,        \* whether init's timeout has elapsed, and sent as it was then
    ended              \* what the submit and await of the CTAS query returned,
                       \* and what the cleanup callback returned

callVars == <<callerQuery, connResultMode, ctxResultMode>>
runVars == <<pc, query, resultMode, ctasTable, afterDownload, result, outputLocation>>
waitVars == <<wpc, wret, observed, polls, outstanding, stopCalls, execState, execReason>>
initVars == <<ipc, i, iret, afterDownloadCalls>>
dlVars == <<dpc, dres, listing, manifest, objectKeys, dIdx, fetched, downloadedRows>>
tblVars == <<tpc, tres, ctasTableColumns>>
decVars == <<input, records, decoded>>
clsVars == <<queryType>>
curVars == <<skipHeader, closed, nexts>>
prepVars == <<stmt, perr, stmtCloses, prepared>>
sigVars == <<tableCalls, sent, received, atDeadline, ended>>

vars == <<callVars, prepVars, runVars, ctxErr, submitted, ctasSucceeded, waitVars, initVars,
          errCh, initCtxErr, dlVars, tblVars, decVars, clsVars, curVars, sigVars>>

\* runQuery's return values: rows names the cursor's variant, or is Nil
NoResult == [rows |-> Nil, err |-> Nil]

\* no goroutine has sent on init's channel
NoneSent == [dl |-> <<>>, tbl |-> <<>>]

\* neither the CTAS query nor the cleanup callback has returned
NoneEnded == [ctas |-> <<>>, cleanup |-> <<>>]

\* PrepareContext's return values before it returns
NoStmt == [stmt |-> Nil, err |-> Nil]

\* a nil *downloadedRows
NilRows == [alloc |-> FALSE, data |-> <<>>, cursor |-> 0]

\* the state of everything but the caller's inputs, the manifest and the
\* decoder's input, before runQuery is called
Idle ==
    /\ ctxErr = Nil
    /\ resultMode = Nil
    /\ ctasTable = <<>>
    /\ afterDownload = FALSE
    /\ result = NoResult
    /\ submitted = <<>>
    /\ ctasSucceeded = FALSE
    /\ wpc = "idle"
    /\ wret = Nil
    /\ observed = <<>>
    /\ polls = 0
    /\ outstanding = 0
    /\ stopCalls = 0
    /\ execState = Nil
    /\ execReason = Nil
    /\ ipc = "idle"
    /\ i = 0
    /\ errCh = <<>>
    /\ initCtxErr = Nil
    /\ iret = Nil
    /\ afterDownloadCalls = 0
    /\ dpc = "idle"
    /\ dres = Nil
    /\ objectKeys = <<>>
    /\ dIdx = 0
    /\ fetched = <<>>
    /\ downloadedRows = NilRows
    /\ tpc = "idle"
    /\ tres = Nil
    /\ ctasTableColumns = <<>>
    /\ records = <<>>
    /\ decoded = FALSE
    /\ queryType = Nil
    /\ skipHeader = FALSE
    /\ closed = <<>>
    /\ nexts = <<>>
    /\ stmt = Nil
    /\ perr = Nil
    /\ stmtCloses = <<>>
    /\ prepared = NoStmt
    /\ tableCalls = 0
    /\ sent = NoneSent
    /\ received = <<>>
    /\ atDeadline = [elapsed |-> FALSE, sent |-> NoneSent]
    /\ ended = NoneEnded

\* the data objects the engine writes in the behaviours that run a whole query
QueryListings == {<<>>, <<T3>>, <<T1, T2>>}

Init ==
    /\ callerQuery \in Queries
    /\ query = callerQuery
    /\ connResultMode \in {ResultModeAPI, ResultModeDL, ResultModeGzipDL}
    /\ ctxResultMode \in {Nil, ResultModeAPI, ResultModeDL, ResultModeGzipDL, ResultModeBogus}
    /\ outputLocation \in {<<>>, LocationSlash}
    /\ listing = <<>>
    /\ manifest = <<>>
    /\ input = <<>>
    /\ pc = "resolve"
    /\ Idle

(***************************************************************************)
(* The caller's context.                                                   *)
(***************************************************************************)
\* the caller cancels, or the caller's deadline elapses, while runQuery runs
Cancel ==
    /\ ctxErr = Nil
    /\ pc # "done"
    /\ ctxErr' \in {ContextCanceled, ContextDeadlineExceeded}
    /\ UNCHANGED <<callVars, prepVars, runVars, submitted, ctasSucceeded, waitVars, initVars,
                   errCh, initCtxErr, dlVars, tblVars, decVars, clsVars, curVars, sigVars>>

(***************************************************************************)
(* conn.runQuery.                                                          *)
(***************************************************************************)
Return(rows, err) ==
    /\ result' = [rows |-> rows, err |-> err]
    /\ pc' = "done"

\* lines 99-109 without the forcing of lines 107-109
EffectiveMode_NoForcing(isSelect, connMode, ctxMode) ==
    IF ctxMode # Nil THEN ctxMode ELSE connMode

\* lines 99-109: the effective result mode of a call that passes validation
EffectiveMode(isSelect, connMode, ctxMode) ==
    IF ~isSelect THEN ResultModeAPI
    ELSE IF ctxMode # Nil THEN ctxMode ELSE connMode

RunQueryResolve ==
    /\ pc = "resolve"
    /\ IF ctxResultMode # Nil /\ ~isValidResultMode(ctxResultMode)
       THEN /\ Return(Nil, ErrInvalidResultMode)
            /\ UNCHANGED resultMode
       ELSE /\ resultMode' =
                  EffectiveMode(isSelectQuery(query), connResultMode, ctxResultMode)
            /\ pc' = "outputLocation"
            /\ UNCHANGED result
    /\ UNCHANGED <<callVars, prepVars, query, ctasTable, afterDownload, outputLocation, ctxErr,
                   submitted, ctasSucceeded, waitVars, initVars, errCh, initCtxErr,
                   dlVars, tblVars, decVars, clsVars, curVars, sigVars>>

\* lines 124-130
RunQueryOutputLocation ==
    /\ pc = "outputLocation"
    /\ IF checkOutputLocation(resultMode, outputLocation)
       THEN \/ /\ outputLocation' = Location
               /\ pc' = "ctas"
               /\ UNCHANGED result
            \/ /\ outputLocation' = <<>>
               /\ Return(Nil, LocationErr)
       ELSE /\ pc' = "ctas"
            /\ UNCHANGED <<outputLocation, result>>
    /\ UNCHANGED <<callVars, prepVars, query, resultMode, ctasTable, afterDownload, ctxErr,
                   submitted, ctasSucceeded, waitVars, initVars, errCh, initCtxErr,
                   dlVars, tblVars, decVars, clsVars, curVars, sigVars>>

\* lines 133-140
RunQueryCTAS ==
    /\ pc = "ctas"
    /\ IF isCreatingCTASTable(isSelectQuery(query), resultMode)
       THEN /\ ctasTable' = TmpTable
            /\ query' = CtasText(TmpTable, query)
            /\ afterDownload' = TRUE
       ELSE UNCHANGED <<ctasTable, query, afterDownload>>
    /\ pc' = "startQuery"
    /\ UNCHANGED <<callVars, prepVars, resultMode, result, outputLocation, ctxErr, submitted,
                   ctasSucceeded, waitVars, initVars, errCh, initCtxErr, dlVars,
                   tblVars, decVars, clsVars, curVars, sigVars>>

\* conn.startQuery: the errors StartQueryExecution can return
StartErrors == IF ctxErr # Nil THEN {SdkCanceled} ELSE {SubmitErr}

\* waitOnQuery is entered for a new execution
EnterWait ==
    /\ wpc' = "poll"
    /\ wret' = Nil
    /\ observed' = <<>>
    /\ polls' = 0
    /\ stopCalls' = 0
    /\ execState' = Queued
    /\ execReason' = Nil
    /\ UNCHANGED outstanding

\* lines 142-147: startQuery, and on success the call of waitOnQuery
RunQueryStart ==
    /\ pc = "startQuery"
    /\ submitted' = Append(submitted, query)
    /\ \/ /\ \E e \in StartErrors :
                /\ Return(Nil, e)
                /\ ended' = IF afterDownload
                             THEN [ended EXCEPT !.ctas = Append(@, e)] ELSE ended
          /\ UNCHANGED waitVars
       \/ /\ ctxErr = Nil
          /\ pc' = "waitOnQuery"
          /\ EnterWait
          /\ UNCHANGED <<result, ended>>
    /\ UNCHANGED <<callVars, prepVars, query, resultMode, ctasTable, afterDownload,
                   outputLocation, ctxErr, ctasSucceeded, initVars, errCh, initCtxErr,
                   dlVars, tblVars, decVars, clsVars, curVars, tableCalls, sent, received, atDeadline>>

(***************************************************************************)
(* conn.waitOnQuery.                                                       *)
(***************************************************************************)
notWaitVars == <<callVars, prepVars, runVars, ctxErr, submitted, initVars, errCh, initCtxErr,
                 dlVars, tblVars, decVars, clsVars, curVars, sigVars>>

\* lines 213-215: GetQueryExecution is called; with a context that is done
\* the call fails without a request
WaitPollSend ==
    /\ wpc = "poll"
    /\ polls' = polls + 1
    /\ IF ctxErr # Nil
       THEN /\ wret' = SdkCanceled
            /\ wpc' = "ret"
            /\ UNCHANGED outstanding
       ELSE /\ outstanding' = outstanding + 1
            /\ wpc' = "inflight"
            /\ UNCHANGED wret
    /\ UNCHANGED <<observed, stopCalls, execState, execReason, ctasSucceeded>>
    /\ UNCHANGED notWaitVars

\* the CTAS execution, not the DROP, is the one awaited
AwaitingCTAS == pc = "waitOnQuery" /\ afterDownload

\* lines 220-230 with the Cancelled and Succeeded outcomes exchanged
Outcome_Swapped(state, reason) ==
    IF state = Cancelled THEN Nil
    ELSE IF state = Failed THEN (IF reason = Nil THEN NilDeref ELSE reason)
    ELSE ContextCanceled

\* lines 220-230: what waitOnQuery returns on a terminal state
Outcome(state, reason) ==
    IF state = Cancelled THEN ContextCanceled
    ELSE IF state = Failed THEN (IF reason = Nil THEN NilDeref ELSE reason)
    ELSE Nil

\* lines 232-241: the select is entered; a context already done is chosen
\* at once, the timer has not fired yet
AfterNonTerminal(err) == IF err # Nil THEN "stop" ELSE "select"

\* lines 216-230: the status check returns
WaitPollRecv ==
    /\ wpc = "inflight"
    /\ outstanding' = outstanding - 1
    /\ \/ /\ \E e \in (IF ctxErr # Nil THEN {SdkCanceled, StatusErr} ELSE {StatusErr}) :
                wret' = e
          /\ wpc' = "ret"
          /\ UNCHANGED <<observed, execState, execReason, ctasSucceeded>>
       \/ \E s \in NextStates(execState) :
            /\ s \in Terminal \/ polls < MaxPolls
            /\ execState' = s
            /\ observed' = Append(observed, s)
            /\ IF s \in Terminal
               THEN /\ \E r \in (IF s = Failed THEN Reasons ELSE {Nil}) :
                         /\ execReason' = r
                         /\ wret' = Outcome(s, r)
                    /\ wpc' = "ret"
                    /\ ctasSucceeded' = (ctasSucceeded \/ (AwaitingCTAS /\ s = Succeeded))
               ELSE /\ wpc' = AfterNonTerminal(ctxErr)
                    /\ UNCHANGED <<wret, execReason, ctasSucceeded>>
    /\ UNCHANGED <<polls, stopCalls>>
    /\ UNCHANGED notWaitVars

\* line 239 followed by a status check whose answer is dropped
WaitSelectTimer_Repoll ==
    /\ wpc = "select"
    /\ wpc' = "poll"
    /\ polls' = polls + 1
    /\ UNCHANGED <<wret, observed, outstanding, stopCalls, execState, execReason,
                   ctasSucceeded>>
    /\ UNCHANGED notWaitVars

\* line 239: the poll interval has passed
WaitSelectTimer ==
    /\ wpc = "select"
    /\ wpc' = "poll"
    /\ UNCHANGED <<wret, observed, polls, outstanding, stopCalls, execState, execReason,
                   ctasSucceeded>>
    /\ UNCHANGED notWaitVars

\* line 233: the context is done while the select waits
WaitSelectDone ==
    /\ wpc = "select"
    /\ ctxErr # Nil
    /\ wpc' = "stop"
    /\ UNCHANGED <<wret, observed, polls, outstanding, stopCalls, execState, execReason,
                   ctasSucceeded>>
    /\ UNCHANGED notWaitVars

\* lines 234-238: the stop request, then ctx.Err() is returned
WaitStop ==
    /\ wpc = "stop"
    /\ stopCalls' = stopCalls + 1
    /\ wret' = ctxErr
    /\ wpc' = "ret"
    /\ UNCHANGED <<observed, polls, outstanding, execState, execReason, ctasSucceeded>>
    /\ UNCHANGED notWaitVars

\* waitOnQuery's frame is left
LeaveWait ==
    /\ wpc' = "idle"
    /\ wret' = Nil
    /\ observed' = <<>>
    /\ polls' = 0
    /\ stopCalls' = 0
    /\ execState' = Nil
    /\ execReason' = Nil
    /\ UNCHANGED outstanding

\* lines 147-151 with waitOnQuery's error dropped
RunQueryWaitReturn_IgnoreError ==
    /\ pc = "waitOnQuery"
    /\ wpc = "ret"
    /\ pc' = "newRows"
    /\ UNCHANGED result
    /\ LeaveWait
    /\ listing' \in (IF afterDownload THEN QueryListings ELSE {listing})
    /\ manifest' = ManifestOf(listing')
    /\ ended' = IF afterDownload THEN [ended EXCEPT !.ctas = Append(@, wret)] ELSE ended
    /\ UNCHANGED <<callVars, prepVars, query, resultMode, ctasTable, afterDownload,
                   outputLocation, ctxErr, submitted, ctasSucceeded, initVars, errCh,
                   initCtxErr, dpc, dres, objectKeys, dIdx, fetched, downloadedRows,
                   tblVars, decVars, clsVars, curVars, tableCalls, sent, received, atDeadline>>

\* lines 147-151: waitOnQuery has returned to runQuery
RunQueryWaitReturn ==
    /\ pc = "waitOnQuery"
    /\ wpc = "ret"
    /\ IF wret # Nil
       THEN Return(Nil, wret)
       ELSE /\ pc' = "newRows"
            /\ UNCHANGED result
    /\ LeaveWait
    /\ listing' \in (IF afterDownload /\ wret = Nil THEN QueryListings ELSE {listing})
    /\ manifest' = ManifestOf(listing')
    /\ ended' = IF afterDownload THEN [ended EXCEPT !.ctas = Append(@, wret)] ELSE ended
    /\ UNCHANGED <<callVars, prepVars, query, resultMode, ctasTable, afterDownload,
                   outputLocation, ctxErr, submitted, ctasSucceeded, initVars, errCh,
                   initCtxErr, dpc, dres, objectKeys, dIdx, fetched, downloadedRows,
                   tblVars, decVars, clsVars, curVars, tableCalls, sent, received, atDeadline>>

(***************************************************************************)
(* newRows and rowsGzipDL.init.                                            *)
(***************************************************************************)
\* newRows: the constructor the result mode selects; newRowsGzipDL calls
\* rowsGzipDL.init, the other two build their cursor in one step
newRowsCallsInit(mode) == mode = ResultModeGzipDL

\* lines 151-163: newRows builds the cursor of the result mode
RunQueryNewRows ==
    /\ pc = "newRows"
    /\ skipHeader' = ~isDDLQuery(query)
    /\ IF newRowsCallsInit(resultMode)
       THEN /\ pc' = "init"
            /\ ipc' = "start"
            /\ UNCHANGED result
       ELSE /\ \/ Return(resultMode, Nil)
               \/ Return(Nil, RowsErr)
            /\ UNCHANGED ipc
    /\ UNCHANGED <<callVars, prepVars, query, resultMode, ctasTable, afterDownload,
                   outputLocation, ctxErr, submitted, ctasSucceeded, waitVars, i, iret,
                   afterDownloadCalls, errCh, initCtxErr, dlVars, tblVars, decVars, clsVars,
                   closed, nexts, sigVars>>

\* rows_gzip.go lines 53-63: the timeout context, the channel, the goroutines
InitStart ==
    /\ ipc = "start"
    /\ ipc' = "loop"
    /\ i' = 0
    /\ errCh' = <<>>
    /\ initCtxErr' = Nil
    /\ dpc' = "manifest"
    /\ tpc' = "call"
    /\ UNCHANGED <<callVars, prepVars, runVars, ctxErr, submitted, ctasSucceeded, waitVars, iret,
                   afterDownloadCalls, dres, listing, manifest, objectKeys, dIdx, fetched,
                   downloadedRows, tres, ctasTableColumns, decVars, clsVars, curVars, sigVars>>

\* the timeout of init's context elapses
InitDeadline ==
    /\ ipc = "loop"
    /\ initCtxErr = Nil
    /\ initCtxErr' = ContextDeadlineExceeded
    /\ atDeadline' = [elapsed |-> TRUE, sent |-> sent]
    /\ UNCHANGED <<callVars, prepVars, runVars, ctxErr, submitted, ctasSucceeded, waitVars,
                   initVars, errCh, dlVars, tblVars, decVars, clsVars, curVars,
                   tableCalls, sent, received, ended>>

\* lines 67-68
InitSelectDone ==
    /\ ipc = "loop"
    /\ initCtxErr # Nil
    /\ iret' = initCtxErr
    /\ ipc' = "ret"
    /\ UNCHANGED <<callVars, prepVars, runVars, ctxErr, submitted, ctasSucceeded, waitVars, i,
                   afterDownloadCalls, errCh, initCtxErr, dlVars, tblVars, decVars, clsVars, curVars, sigVars>>

\* lines 65-74 with the loop ending after one signal
InitSelectRecv_OneSignal ==
    /\ ipc = "loop"
    /\ errCh # <<>>
    /\ errCh' = Tail(errCh)
    /\ IF Head(errCh) # Nil
       THEN /\ iret' = Head(errCh)
            /\ ipc' = "ret"
            /\ UNCHANGED i
       ELSE /\ i' = 2
            /\ ipc' = "afterDownload"
            /\ UNCHANGED iret
    /\ received' = Append(received, Head(errCh))
    /\ UNCHANGED <<callVars, prepVars, runVars, ctxErr, submitted, ctasSucceeded, waitVars,
                   afterDownloadCalls, initCtxErr, dlVars, tblVars, decVars, clsVars,
                   curVars, tableCalls, sent, atDeadline, ended>>

\* lines 65-74 without the return of lines 70-72
InitSelectRecv_IgnoreError ==
    /\ ipc = "loop"
    /\ errCh # <<>>
    /\ errCh' = Tail(errCh)
    /\ i' = i + 1
    /\ ipc' = IF i + 1 < 2 THEN "loop" ELSE "afterDownload"
    /\ UNCHANGED iret
    /\ received' = Append(received, Head(errCh))
    /\ UNCHANGED <<callVars, prepVars, runVars, ctxErr, submitted, ctasSucceeded, waitVars,
                   afterDownloadCalls, initCtxErr, dlVars, tblVars, decVars, clsVars,
                   curVars, tableCalls, sent, atDeadline, ended>>

\* lines 65-74: one completion signal is received
InitSelectRecv ==
    /\ ipc = "loop"
    /\ errCh # <<>>
    /\ errCh' = Tail(errCh)
    /\ IF Head(errCh) # Nil
       THEN /\ iret' = Head(errCh)
            /\ ipc' = "ret"
            /\ UNCHANGED i
       ELSE /\ i' = i + 1
            /\ ipc' = IF i + 1 < 2 THEN "loop" ELSE "afterDownload"
            /\ UNCHANGED iret
    /\ received' = Append(received, Head(errCh))
    /\ UNCHANGED <<callVars, prepVars, runVars, ctxErr, submitted, ctasSucceeded, waitVars,
                   afterDownloadCalls, initCtxErr, dlVars, tblVars, decVars, clsVars,
                   curVars, tableCalls, sent, atDeadline, ended>>

\* lines 76-83 without the call of the callback
InitAfterDownload_Skip ==
    /\ ipc = "afterDownload"
    /\ iret' = Nil
    /\ ipc' = "ret"
    /\ UNCHANGED afterDownloadCalls
    /\ UNCHANGED <<callVars, prepVars, runVars, ctxErr, submitted, ctasSucceeded, waitVars, i,
                   errCh, initCtxErr, dlVars, tblVars, decVars, clsVars, curVars, sigVars>>

\* lines 76-83: the callback, when there is one, is called
InitAfterDownload ==
    /\ ipc = "afterDownload"
    /\ IF afterDownload
       THEN /\ afterDownloadCalls' = afterDownloadCalls + 1
            /\ ipc' = "dropStart"
            /\ UNCHANGED iret
       ELSE /\ iret' = Nil
            /\ ipc' = "ret"
            /\ UNCHANGED afterDownloadCalls
    /\ UNCHANGED <<callVars, prepVars, runVars, ctxErr, submitted, ctasSucceeded, waitVars, i,
                   errCh, initCtxErr, dlVars, tblVars, decVars, clsVars, curVars, sigVars>>

\* conn.go lines 168-175: the callback submits DROP TABLE and awaits it
DropStart ==
    /\ ipc = "dropStart"
    /\ submitted' = Append(submitted, DropText(ctasTable))
    /\ \/ /\ \E e \in StartErrors :
                /\ iret' = e
                /\ ended' = [ended EXCEPT !.cleanup = Append(@, e)]
          /\ ipc' = "ret"
          /\ UNCHANGED waitVars
       \/ /\ ctxErr = Nil
          /\ ipc' = "dropWait"
          /\ EnterWait
          /\ UNCHANGED <<iret, ended>>
    /\ UNCHANGED <<callVars, prepVars, runVars, ctxErr, ctasSucceeded, i, afterDownloadCalls,
                   errCh, initCtxErr, dlVars, tblVars, decVars, clsVars, curVars,
                   tableCalls, sent, received, atDeadline>>

\* lines 78-83 with the callback's error dropped
DropWaitReturn_IgnoreError ==
    /\ ipc = "dropWait"
    /\ wpc = "ret"
    /\ iret' = Nil
    /\ ended' = [ended EXCEPT !.cleanup = Append(@, wret)]
    /\ ipc' = "ret"
    /\ LeaveWait
    /\ UNCHANGED <<callVars, prepVars, runVars, ctxErr, submitted, ctasSucceeded, i,
                   afterDownloadCalls, errCh, initCtxErr, dlVars, tblVars, decVars, clsVars,
                   curVars, tableCalls, sent, received, atDeadline>>

\* conn.go line 175, rows_gzip.go lines 78-83: the callback returns what
\* waitOnQuery returned, and init returns that
DropWaitReturn ==
    /\ ipc = "dropWait"
    /\ wpc = "ret"
    /\ iret' = wret
    /\ ended' = [ended EXCEPT !.cleanup = Append(@, wret)]
    /\ ipc' = "ret"
    /\ LeaveWait
    /\ UNCHANGED <<callVars, prepVars, runVars, ctxErr, submitted, ctasSucceeded, i,
                   afterDownloadCalls, errCh, initCtxErr, dlVars, tblVars, decVars, clsVars,
                   curVars, tableCalls, sent, received, atDeadline>>

\* init returns (its deferred cancel ends the timeout context), and
\* newRowsGzipDL, newRows and runQuery return the cursor or the error
InitReturn ==
    /\ ipc = "ret"
    /\ ipc' = "done"
    /\ initCtxErr' = IF initCtxErr = Nil THEN ContextCanceled ELSE initCtxErr
    /\ IF iret = Nil THEN Return(ResultModeGzipDL, Nil) ELSE Return(Nil, iret)
    /\ UNCHANGED <<callVars, prepVars, query, resultMode, ctasTable, afterDownload,
                   outputLocation, ctxErr, submitted, ctasSucceeded, waitVars, i, iret,
                   afterDownloadCalls, errCh, dlVars, tblVars, decVars, clsVars, curVars, sigVars>>

(***************************************************************************)
(* rowsGzipDL.Close, called by the holder of a returned cursor.            *)
(***************************************************************************)
notClosed == <<callVars, prepVars, runVars, ctxErr, submitted, ctasSucceeded, waitVars, initVars,
               errCh, initCtxErr, dlVars, tblVars, decVars, clsVars, skipHeader, nexts,
                   sigVars>>

\* Close dropping the temporary table once more
Close_Drops ==
    /\ result.rows = ResultModeGzipDL
    /\ Len(closed) < MaxCloses
    /\ closed' = Append(closed, Nil)
    /\ submitted' = Append(submitted, DropText(ctasTable))
    /\ UNCHANGED <<callVars, prepVars, runVars, ctxErr, ctasSucceeded, waitVars, initVars,
                   errCh, initCtxErr, dlVars, tblVars, decVars, clsVars, skipHeader, nexts,
                   sigVars>>

\* lines 224-226
Close ==
    /\ result.rows = ResultModeGzipDL
    /\ Len(closed) < MaxCloses
    /\ closed' = Append(closed, Nil)
    /\ UNCHANGED notClosed

(***************************************************************************)
(* rowsGzipDL.Next, called by the holder of a returned cursor.             *)
(***************************************************************************)
notNext == <<callVars, prepVars, runVars, ctxErr, submitted, ctasSucceeded, waitVars, initVars,
             errCh, initCtxErr, dpc, dres, listing, manifest, objectKeys, dIdx, fetched,
             tblVars, decVars, clsVars, skipHeader, closed, sigVars>>

\* what a call of Next hands back: the error, and the row written to dest
NextRet(err, row) == [err |-> err, row |-> row]

\* the calls of Next so far that failed in convertRowFromTableInfo
ConvertErrs == Cardinality({k \in 1..Len(nexts) : nexts[k].err = ConvertErr})

\* nextCTAS with the offset advanced before the row is converted
nextCTAS_AdvanceFirst ==
    IF ~downloadedRows.alloc
    THEN /\ nexts' = Append(nexts, NextRet(NilDeref, <<>>))
         /\ UNCHANGED downloadedRows
    ELSE IF downloadedRows.cursor >= Len(downloadedRows.data)
    THEN /\ nexts' = Append(nexts, NextRet(EOF, <<>>))
         /\ UNCHANGED downloadedRows
    ELSE /\ downloadedRows' = [downloadedRows EXCEPT !.cursor = @ + 1]
         /\ \/ /\ ConvertErrs < MaxConvertErrs
               /\ nexts' = Append(nexts, NextRet(ConvertErr, <<>>))
            \/ nexts' = Append(nexts,
                   NextRet(Nil, downloadedRows.data[downloadedRows.cursor + 1]))

\* lines 184-196 (the offset counts from 0, the sequence from 1); with
\* r.downloadedRows nil line 185 dereferences nil
nextCTAS ==
    IF ~downloadedRows.alloc
    THEN /\ nexts' = Append(nexts, NextRet(NilDeref, <<>>))
         /\ UNCHANGED downloadedRows
    ELSE IF downloadedRows.cursor >= Len(downloadedRows.data)
    THEN /\ nexts' = Append(nexts, NextRet(EOF, <<>>))
         /\ UNCHANGED downloadedRows
    ELSE \/ /\ ConvertErrs < MaxConvertErrs
            /\ nexts' = Append(nexts, NextRet(ConvertErr, <<>>))
            /\ UNCHANGED downloadedRows
         \/ /\ nexts' = Append(nexts,
                   NextRet(Nil, downloadedRows.data[downloadedRows.cursor + 1]))
            /\ downloadedRows' = [downloadedRows EXCEPT !.cursor = @ + 1]

\* lines 220-222
RowsNext ==
    /\ result.rows = ResultModeGzipDL
    /\ Len(nexts) < MaxNexts
    /\ nextCTAS
    /\ UNCHANGED notNext

(***************************************************************************)
(* conn.PrepareContext and conn.prepareContext.                            *)
(***************************************************************************)
PrepareReturn(st, err) ==
    /\ prepared' = [stmt |-> st, err |-> err]
    /\ pc' = "done"

\* conn.go lines 250-252
PrepareContextEnter ==
    /\ pc = "PrepareContext"
    /\ IF ctxErr # Nil
       THEN PrepareReturn(Nil, ctxErr)
       ELSE /\ pc' = "prepareContext"
            /\ UNCHANGED prepared
    /\ UNCHANGED <<callVars, stmt, perr, stmtCloses, query, resultMode, ctasTable,
                   afterDownload, result, outputLocation, ctxErr, submitted,
                   ctasSucceeded, waitVars, initVars, errCh, initCtxErr, dlVars, tblVars,
                   decVars, clsVars, curVars, sigVars>>

\* lines 266-286: the result mode (with no validity check), the CTAS
\* rewriting, the PREPARE text
PrepareResolve ==
    /\ pc = "prepareContext"
    /\ LET isSelect == isSelectQuery(query)
           mode == EffectiveMode(isSelect, connResultMode, ctxResultMode)
           ctas == isCreatingCTASTable(isSelect, mode)
       IN /\ resultMode' = mode
          /\ ctasTable' = IF ctas THEN TmpTable ELSE ctasTable
          /\ afterDownload' = ctas
          /\ query' = PrepareText(PrepareKey,
                                  IF ctas THEN CtasText(TmpTable, query) ELSE query)
    /\ pc' = "prepareStart"
    /\ UNCHANGED <<callVars, prepVars, result, outputLocation, ctxErr, submitted,
                   ctasSucceeded, waitVars, initVars, errCh, initCtxErr, dlVars, tblVars,
                   decVars, clsVars, curVars, sigVars>>

\* lines 288-295: startQuery, and on success the call of waitOnQuery
PrepareStart ==
    /\ pc = "prepareStart"
    /\ submitted' = Append(submitted, query)
    /\ \/ /\ \E e \in StartErrors : perr' = e
          /\ pc' = "prepareSelect"
          /\ UNCHANGED waitVars
       \/ /\ ctxErr = Nil
          /\ pc' = "prepareWait"
          /\ EnterWait
          /\ UNCHANGED perr
    /\ UNCHANGED <<callVars, stmt, stmtCloses, prepared, query, resultMode, ctasTable,
                   afterDownload, result, outputLocation, ctxErr, ctasSucceeded, initVars,
                   errCh, initCtxErr, dlVars, tblVars, decVars, clsVars, curVars, sigVars>>

\* lines 293-304 and 253: waitOnQuery has returned; prepareContext returns
\* the statement it builds, or nil and the error
PrepareWaitReturn ==
    /\ pc = "prepareWait"
    /\ wpc = "ret"
    /\ IF wret # Nil
       THEN /\ perr' = wret
            /\ UNCHANGED stmt
       ELSE /\ stmt' = StmtAthena
            /\ UNCHANGED perr
    /\ pc' = "prepareSelect"
    /\ LeaveWait
    /\ UNCHANGED <<callVars, stmtCloses, prepared, query, resultMode, ctasTable,
                   afterDownload, result, outputLocation, ctxErr, submitted, ctasSucceeded,
                   initVars, errCh, initCtxErr, dlVars, tblVars, decVars, clsVars, curVars,
                   sigVars>>

\* lines 255-262: the select takes the Done case when the context is done
\* (the default case only when no other is ready) and calls stmt.Close();
\* on the nil interface that call is a nil dereference
PrepareSelect ==
    /\ pc = "prepareSelect"
    /\ IF ctxErr # Nil
       THEN /\ stmtCloses' = Append(stmtCloses, stmt)
            /\ IF stmt = Nil
               THEN PrepareReturn(Nil, NilDeref)
               ELSE PrepareReturn(Nil, ctxErr)
       ELSE /\ PrepareReturn(stmt, perr)
            /\ UNCHANGED stmtCloses
    /\ UNCHANGED <<callVars, stmt, perr, query, resultMode, ctasTable,
                   afterDownload, result, outputLocation, ctxErr, submitted,
                   ctasSucceeded, waitVars, initVars, errCh, initCtxErr, dlVars, tblVars,
                   decVars, clsVars, curVars, sigVars>>

(***************************************************************************)
(* The two goroutines of init.                                             *)
(***************************************************************************)
notDlVars == <<callVars, prepVars, runVars, ctxErr, submitted, ctasSucceeded, waitVars, initVars,
               initCtxErr, tblVars, decVars, clsVars, curVars>>

\* the errors a GetObject call can return
GetObjectErrors == IF initCtxErr # Nil THEN {SdkCanceled} ELSE {DownloadErr}

\* lines 96-126: the manifest is fetched and split into object keys
DlGetManifest ==
    /\ dpc = "manifest"
    /\ \/ /\ \E e \in GetObjectErrors : dres' = e
          /\ dpc' = "send"
          /\ UNCHANGED <<objectKeys, dIdx>>
       \/ /\ initCtxErr = Nil
          /\ LET keys == getObjectKeysForGzip(manifest,
                                              Len(TrimLocation(outputLocation)) + 1)
             IN /\ objectKeys' = keys
                /\ dIdx' = 1
                /\ dpc' = IF Len(keys) = 0 THEN "send" ELSE "object"
          /\ UNCHANGED dres
    /\ UNCHANGED <<listing, manifest, fetched, downloadedRows, errCh, sigVars>>
    /\ UNCHANGED notDlVars

\* lines 153-158 with the new rows put in front
AppendRows_Prepend(buf, datas) ==
    [alloc |-> TRUE, data |-> datas \o buf.data, cursor |-> buf.cursor]

\* lines 153-158: the buffer is allocated on first use and the rows appended
AppendRows(buf, datas) ==
    [alloc |-> TRUE, data |-> buf.data \o datas, cursor |-> buf.cursor]

\* lines 128-159: one iteration of the loop over the object keys
DlObject ==
    /\ dpc = "object"
    /\ fetched' = Append(fetched, objectKeys[dIdx])
    /\ \/ /\ \E e \in GetObjectErrors : dres' = e
          /\ dpc' = "send"
          /\ UNCHANGED <<dIdx, downloadedRows>>
       \/ /\ initCtxErr = Nil
          /\ LET obj == ObjectStore(objectKeys[dIdx])
             IN IF ~obj.gzip
                THEN /\ dres' = GzipErr
                     /\ dpc' = "send"
                     /\ UNCHANGED <<dIdx, downloadedRows>>
                ELSE /\ downloadedRows' =
                           AppendRows(downloadedRows, getRecordsFromGzip(obj.payload))
                     /\ dIdx' = dIdx + 1
                     /\ dpc' = IF dIdx < Len(objectKeys) THEN "object" ELSE "send"
                     /\ UNCHANGED dres
    /\ UNCHANGED <<listing, manifest, objectKeys, errCh, sigVars>>
    /\ UNCHANGED notDlVars

\* lines 86-93: downloadCompressedDataAsync sends the result
DlSend ==
    /\ dpc = "send"
    /\ Len(errCh) < ErrChCap
    /\ errCh' = Append(errCh, dres)
    /\ sent' = [sent EXCEPT !.dl = Append(@, dres)]
    /\ dpc' = "done"
    /\ UNCHANGED <<dres, listing, manifest, objectKeys, dIdx, fetched, downloadedRows,
                   tableCalls, received, atDeadline, ended>>
    /\ UNCHANGED notDlVars

\* lines 164-177 and 181: getTableAsync up to its send
TblGet ==
    /\ tpc = "call"
    /\ tpc' = "send"
    /\ tableCalls' = tableCalls + 1
    /\ \/ /\ \E e \in (IF initCtxErr # Nil THEN {SdkCanceled} ELSE {MetadataErr}) :
                tres' = e
          /\ UNCHANGED ctasTableColumns
       \/ /\ initCtxErr = Nil
          /\ ctasTableColumns' = Columns
          /\ tres' = Nil
    /\ UNCHANGED <<sent, received, atDeadline, ended, errCh>>
    /\ UNCHANGED <<callVars, prepVars, runVars, ctxErr, submitted, ctasSucceeded, waitVars,
                   initVars, initCtxErr, dlVars, decVars, clsVars, curVars>>

\* getTableAsync sending its result a second time
TblSend_Twice ==
    /\ tpc = "send"
    /\ Len(errCh) < ErrChCap
    /\ errCh' = Append(errCh, tres)
    /\ sent' = [sent EXCEPT !.tbl = Append(@, tres)]
    /\ tpc' = IF Len(sent.tbl) = 0 THEN "send" ELSE "done"
    /\ UNCHANGED <<tres, ctasTableColumns, tableCalls, received, atDeadline, ended>>
    /\ UNCHANGED <<callVars, prepVars, runVars, ctxErr, submitted, ctasSucceeded, waitVars,
                   initVars, initCtxErr, dlVars, decVars, clsVars, curVars>>

\* lines 178 and 182: getTableAsync sends its result and returns
TblSend ==
    /\ tpc = "send"
    /\ Len(errCh) < ErrChCap
    /\ errCh' = Append(errCh, tres)
    /\ sent' = [sent EXCEPT !.tbl = Append(@, tres)]
    /\ tpc' = "done"
    /\ UNCHANGED <<tres, ctasTableColumns, tableCalls, received, atDeadline, ended>>
    /\ UNCHANGED <<callVars, prepVars, runVars, ctxErr, submitted, ctasSucceeded, waitVars,
                   initVars, initCtxErr, dlVars, decVars, clsVars, curVars>>

(***************************************************************************)
(* getRecordsFromGzip applied to the input.                                *)
(***************************************************************************)
Decode ==
    /\ ~decoded
    /\ records' = getRecordsFromGzip(input)
    /\ decoded' = TRUE
    /\ UNCHANGED <<callVars, prepVars, runVars, ctxErr, submitted, ctasSucceeded, waitVars,
                   initVars, errCh, initCtxErr, dlVars, tblVars, input, clsVars, curVars, sigVars>>

(***************************************************************************)
(* getQueryType applied to the caller's text.                              *)
(***************************************************************************)
Classify ==
    /\ queryType = Nil
    /\ queryType' = getQueryType(callerQuery)
    /\ UNCHANGED <<callVars, prepVars, runVars, ctxErr, submitted, ctasSucceeded, waitVars,
                   initVars, errCh, initCtxErr, dlVars, tblVars, decVars, curVars, sigVars>>

(***************************************************************************)
(* Specifications.                                                         *)
(***************************************************************************)
NextCall ==
    \/ Cancel
    \/ RunQueryResolve
    \/ RunQueryOutputLocation
    \/ RunQueryCTAS
    \/ RunQueryStart
    \/ WaitPollSend
    \/ WaitPollRecv
    \/ WaitSelectTimer
    \/ WaitSelectDone
    \/ WaitStop
    \/ RunQueryWaitReturn
    \/ RunQueryNewRows
    \/ InitStart
    \/ InitDeadline
    \/ InitSelectDone
    \/ InitSelectRecv
    \/ InitAfterDownload
    \/ DropStart
    \/ DropWaitReturn
    \/ InitReturn
    \/ DlGetManifest
    \/ DlObject
    \/ DlSend
    \/ TblGet
    \/ TblSend

\* a runQuery call, and what the caller does with a cursor it was handed
Next ==
    \/ NextCall
    \/ Close
    \/ RowsNext

Spec == Init /\ [][Next]_vars

\* a whole runQuery call in which the runtime keeps scheduling the two
\* goroutines of init: each of their steps is a call that returns (the SDK
\* calls are bound by init's timeout context) or a send, and is taken once
\* it stays possible
SpecLive ==
    /\ Init
    /\ [][NextCall]_vars
    /\ WF_vars(DlGetManifest)
    /\ WF_vars(DlObject)
    /\ WF_vars(DlSend)
    /\ WF_vars(TblGet)
    /\ WF_vars(TblSend)

\* the state in which init has started its goroutines for a CTAS query
InitStarted ==
    /\ callerQuery = QSelect
    /\ query = CtasText(TmpTable, QSelect)
    /\ connResultMode = ResultModeGzipDL
    /\ ctxResultMode = Nil
    /\ ctxErr = Nil
    /\ pc = "init"
    /\ resultMode = ResultModeGzipDL
    /\ ctasTable = TmpTable
    /\ afterDownload = TRUE
    /\ result = NoResult
    /\ submitted = <<CtasText(TmpTable, QSelect)>>
    /\ ctasSucceeded = TRUE
    /\ wpc = "idle"
    /\ wret = Nil
    /\ observed = <<>>
    /\ polls = 0
    /\ outstanding = 0
    /\ stopCalls = 0
    /\ execState = Nil
    /\ execReason = Nil
    /\ ipc = "loop"
    /\ i = 0
    /\ errCh = <<>>
    /\ initCtxErr = Nil
    /\ iret = Nil
    /\ afterDownloadCalls = 0
    /\ dpc = "manifest"
    /\ dres = Nil
    /\ objectKeys = <<>>
    /\ dIdx = 0
    /\ fetched = <<>>
    /\ downloadedRows = NilRows
    /\ tpc = "call"
    /\ tres = Nil
    /\ ctasTableColumns = <<>>
    /\ input = <<>>
    /\ records = <<>>
    /\ decoded = FALSE
    /\ queryType = Nil
    /\ skipHeader = FALSE
    /\ closed = <<>>
    /\ nexts = <<>>
    /\ stmt = Nil
    /\ perr = Nil
    /\ stmtCloses = <<>>
    /\ prepared = NoStmt
    /\ tableCalls = 0
    /\ sent = NoneSent
    /\ received = <<>>
    /\ atDeadline = [elapsed |-> FALSE, sent |-> NoneSent]
    /\ ended = [NoneEnded EXCEPT !.ctas = <<Nil>>]

\* the data download alone, over every manifest of up to MaxObjects objects
InitDownload ==
    /\ InitStarted
    /\ outputLocation \in {Location, LocationSlash}
    /\ listing \in BoundedSeq(Keys, MaxObjects)
    /\ manifest = ManifestOf(listing)

NextDownload ==
    \/ InitDeadline
    \/ DlGetManifest
    \/ DlObject
    \/ DlSend

SpecDownload == InitDownload /\ [][NextDownload]_vars

\* the record decoder alone, over every input of up to MaxLen bytes
InitDecode ==
    /\ callerQuery = QSelect
    /\ query = QSelect
    /\ connResultMode = ResultModeGzipDL
    /\ ctxResultMode = Nil
    /\ outputLocation = Location
    /\ listing = <<>>
    /\ manifest = <<>>
    /\ pc = "resolve"
    /\ Idle
    /\ input \in BoundedSeq(Bytes, MaxLen)

NextDecode == Decode

SpecDecode == InitDecode /\ [][NextDecode]_vars

\* a PrepareContext call
InitPrepare ==
    /\ callerQuery \in Queries
    /\ query = callerQuery
    /\ connResultMode \in {ResultModeAPI, ResultModeDL, ResultModeGzipDL}
    /\ ctxResultMode \in {Nil, ResultModeAPI, ResultModeDL, ResultModeGzipDL, ResultModeBogus}
    /\ outputLocation = Location
    /\ listing = <<>>
    /\ manifest = <<>>
    /\ input = <<>>
    /\ pc = "PrepareContext"
    /\ Idle

NextPrepare ==
    \/ Cancel
    \/ PrepareContextEnter
    \/ PrepareResolve
    \/ PrepareStart
    \/ WaitPollSend
    \/ WaitPollRecv
    \/ WaitSelectTimer
    \/ WaitSelectDone
    \/ WaitStop
    \/ PrepareWaitReturn
    \/ PrepareSelect

SpecPrepare == InitPrepare /\ [][NextPrepare]_vars

\* the classifier alone, over every text of up to MaxPieces pieces
InitClassify ==
    /\ callerQuery \in ClassifyTexts
    /\ query = callerQuery
    /\ connResultMode = ResultModeAPI
    /\ ctxResultMode = Nil
    /\ outputLocation = Location
    /\ listing = <<>>
    /\ manifest = <<>>
    /\ input = <<>>
    /\ pc = "resolve"
    /\ Idle

NextClassify == Classify

SpecClassify == InitClassify /\ [][NextClassify]_vars

(***************************************************************************)
(* Properties.                                                             *)
(***************************************************************************)
Last(s) == s[Len(s)]

IsPrefix(s, t) == Len(s) <= Len(t) /\ SubSeq(t, 1, Len(s)) = s

InWait == wpc # "idle"

\* runQuery is past its rewriting step (every path past it calls startQuery)
PastCTAS == pc \in {"startQuery", "waitOnQuery", "newRows", "init"} \/ submitted # <<>>

\* C1: once the CTAS query has succeeded, runQuery does not end without the
\* cleanup having been invoked, also when init fails or its deadline elapses.
C1_CleanupRunsOnFailure ==
    (pc = "done" /\ ctasSucceeded) => afterDownloadCalls >= 1

\* C2: the cleanup callback is invoked at most once, only after both fetch
\* operations have reported success, exactly once whenever both have, and
\* a compressed-download cursor is returned only after the one invocation
\* has completed.
C2_CleanupOnceAfterFetches ==
    /\ afterDownloadCalls <= 1
    /\ afterDownloadCalls = 1 =>
          /\ i = 2
          /\ dpc = "done" /\ dres = Nil
          /\ tpc = "done" /\ ctasTableColumns = Columns
          /\ errCh = <<>>
    /\ (i = 2 /\ ipc \in {"dropStart", "dropWait", "ret", "done"}) =>
          afterDownloadCalls = 1
    /\ result.rows = ResultModeGzipDL =>
          /\ afterDownloadCalls = 1
          /\ i = 2
          /\ ipc = "done" /\ wpc = "idle"
          /\ submitted = <<CtasText(TmpTable, callerQuery), DropText(TmpTable)>>

C2_Witness ==
    /\ result.rows = ResultModeGzipDL
    /\ afterDownloadCalls = 1
    /\ Len(downloadedRows.data) = 5

\* C3: when the caller's context is done while the execution is still Queued
\* or Running, waitOnQuery returns the context's error after exactly one
\* stop request.
C3_CancelStopsOnce ==
    (wpc = "ret" /\ ctxErr # Nil /\ execState \in {Queued, Running}) =>
        (wret = ctxErr /\ stopCalls = 1)

\* C4: a query that is not classified SELECT runs in API mode, whatever the
\* connection default and the override in the context are.
C4_NonSelectIsAPI ==
    ~isSelectQuery(callerQuery) =>
        /\ resultMode \in {Nil, ResultModeAPI}
        /\ pc \notin {"resolve", "done"} => resultMode = ResultModeAPI
        /\ result.rows \in {Nil, ResultModeAPI}
        /\ ipc = "idle"

C4_Witness ==
    /\ callerQuery = QShow
    /\ connResultMode = ResultModeDL
    /\ ctxResultMode = ResultModeGzipDL
    /\ result.rows = ResultModeAPI

\* C5: the query is rewritten to CREATE TABLE ... AS and a cleanup callback
\* exists exactly when the text is a SELECT and the effective mode is the
\* compressed download; otherwise the caller's text is submitted unchanged,
\* there is no callback, and no CREATE TABLE or DROP TABLE of a temporary
\* table is submitted.
C5_RewriteIffSelectGzip ==
    LET wanted == isSelectQuery(callerQuery) /\ resultMode = ResultModeGzipDL
        rewritten == /\ query = CtasText(TmpTable, callerQuery)
                     /\ ctasTable = TmpTable
                     /\ afterDownload
        untouched == /\ query = callerQuery
                     /\ ctasTable = <<>>
                     /\ ~afterDownload
    IN /\ rewritten \/ untouched
       /\ PastCTAS => (rewritten <=> wanted)
       /\ ~wanted => /\ untouched
                     /\ afterDownloadCalls = 0
                     /\ \A k \in 1..Len(submitted) : submitted[k] = callerQuery
       /\ wanted => \A k \in 1..Len(submitted) :
             submitted[k] \in {CtasText(TmpTable, callerQuery), DropText(TmpTable)}

C5_Witness ==
    /\ callerQuery = QSelectLower
    /\ connResultMode = ResultModeAPI
    /\ ctxResultMode = ResultModeGzipDL
    /\ submitted = <<CtasText(TmpTable, QSelectLower), DropText(TmpTable)>>
    /\ pc = "done"

\* C6: status checks are made one at a time, and a waitOnQuery call that is
\* told k non-terminal states and then Succeeded returns success after
\* exactly k + 1 status checks and no stop request.
C6_PollsOneAtATime ==
    /\ outstanding <= 1
    /\ wpc = "inflight" <=> outstanding = 1
    /\ wpc \in {"poll", "select", "stop"} => polls = Len(observed)
    /\ wpc = "inflight" => polls = Len(observed) + 1
    /\ (wpc = "ret" /\ observed # <<>> /\ Last(observed) = Succeeded) =>
          /\ wret = Nil
          /\ polls = Len(observed)
          /\ stopCalls = 0
          /\ \A k \in 1..(Len(observed) - 1) : observed[k] \in {Queued, Running}
    /\ (wpc = "ret" /\ wret = Nil) =>
          (observed # <<>> /\ Last(observed) = Succeeded)

C6_Witness ==
    /\ pc = "waitOnQuery"
    /\ wpc = "ret"
    /\ ctxErr = Nil
    /\ observed = <<Queued, Running, Running, Succeeded>>
    /\ polls = 4
    /\ wret = Nil
    /\ stopCalls = 0

RECURSIVE LinesOf(_)
LinesOf(data) ==
    IF Len(data) = 0 THEN <<>>
    ELSE LET p == IndexByte(data, LF)
         IN IF p = 0 THEN <<data>>
            ELSE <<SubSeq(data, 1, p - 1)>> \o LinesOf(Tail2(data, p))

\* the pieces of a line between its U+0001 bytes
RECURSIVE FieldsOf(_)
FieldsOf(line) ==
    LET p == IndexByte(line, SOH)
    IN IF p = 0 THEN <<line>>
       ELSE <<SubSeq(line, 1, p - 1)>> \o FieldsOf(Tail2(line, p))

\* C8: an empty line decodes to one row of one field, the empty string.
C8_EmptyLineOneEmptyField ==
    (decoded /\ input # <<>> /\ \A k \in 1..Len(input) : input[k] = LF) =>
        records = [k \in 1..Len(input) |-> << <<>> >>]

\* C9: the decoder yields one row per line, in order, and the row of a
\* non-empty line holds exactly the pieces of the line between its U+0001
\* bytes, unchanged.
C9_FieldsAreTheSubstrings ==
    decoded =>
        LET lines == LinesOf(input)
        IN /\ Len(records) = Len(lines)
           /\ \A k \in 1..Len(lines) :
                 lines[k] # <<>> => records[k] = FieldsOf(lines[k])

\* the rows of the data objects ks, object after object
RECURSIVE RowsOf(_)
RowsOf(ks) ==
    IF Len(ks) = 0 THEN <<>>
    ELSE getRecordsFromGzip(ObjectStore(Head(ks)).payload) \o RowsOf(Tail(ks))

\* C10: the data objects are fetched one after another in the order the
\* manifest lists them, and after a successful download the row buffer
\* holds the rows of the listed objects in that order, each object's rows
\* in their own order.
C10_RowsInListingOrder ==
    /\ IsPrefix(fetched, listing)
    /\ dpc = "object" =>
          /\ Len(fetched) = dIdx - 1
          /\ downloadedRows.data = RowsOf(fetched)
    /\ (dpc \in {"send", "done"} /\ dres = Nil) =>
          /\ fetched = listing
          /\ downloadedRows.data = RowsOf(listing)
          /\ downloadedRows.cursor = 0

C10_Witness ==
    /\ listing = <<T1, T2>>
    /\ dpc = "done"
    /\ dres = Nil
    /\ Len(downloadedRows.data) = 5
    /\ downloadedRows.data =
          << <<<<97>>, <<98>>>>, <<<<98>>>>, <<<<97>>>>, <<<<98, 98>>>>, <<<<>>, <<>>>> >>

\* the reference classification of a text: what a case-insensitive comparison
\* of its first letters with the keywords says
CaseFolds(c) ==
    {c} \cup {LowerLetters[k] : k \in {j \in 1..26 : UpperLetters[j] = c}}
        \cup (IF c = "S" THEN {LongS} ELSE {})
        \cup (IF c = "K" THEN {KelvinSign} ELSE {})

RefStartsWith(t, kw) ==
    /\ Len(t) >= Len(kw)
    /\ \A j \in 1..Len(kw) : t[j] \in CaseFolds(kw[j])

RefType(t) ==
    IF \E kw \in {KwAlter, KwCreate, KwDescribe, KwDrop, KwMsck, KwShow} : RefStartsWith(t, kw)
    THEN queryTypeDDL
    ELSE IF RefStartsWith(t, KwSelect) THEN queryTypeSelect
    ELSE queryTypeUnknown

C12_SkipHeaderWhenDDL ==
    result.rows = ResultModeAPI =>
        /\ isDDLQuery(query) => skipHeader
        /\ isSelectQuery(query) => ~skipHeader

\* C13: a per-call override that is one of the three result modes is used in
\* place of the connection default (for a SELECT it is the effective mode; a
\* text that is no SELECT runs in API mode whatever is configured); with no
\* override the connection default is used; an override that is none of the
\* three makes the call return the invalid-result-mode error with nothing
\* submitted to the engine, for every query text.
C13_OverridePrecedence ==
    pc # "resolve" =>
        IF ctxResultMode = Nil
        THEN resultMode = IF isSelectQuery(callerQuery) THEN connResultMode ELSE ResultModeAPI
        ELSE IF ctxResultMode \in {ResultModeAPI, ResultModeDL, ResultModeGzipDL}
        THEN resultMode = IF isSelectQuery(callerQuery) THEN ctxResultMode ELSE ResultModeAPI
        ELSE /\ pc = "done"
             /\ result = [rows |-> Nil, err |-> ErrInvalidResultMode]
             /\ submitted = <<>>

\* a SELECT has returned the cursor of its override, which differs from the
\* connection default
C13_Witness ==
    /\ pc = "done"
    /\ isSelectQuery(callerQuery)
    /\ connResultMode = ResultModeGzipDL
    /\ ctxResultMode = ResultModeDL
    /\ result = [rows |-> ResultModeDL, err |-> Nil]
    /\ submitted = <<callerQuery>>

\* C14: every call of Close on a compressed-download cursor, the first and
\* each later one, returns no error, leaves everything else as it was, and
\* submits nothing to the engine (no DROP TABLE).
C14_CloseChangesNothing ==
    [][closed' # closed =>
          /\ closed' = Append(closed, Nil)
          /\ submitted' = submitted
          /\ afterDownloadCalls' = afterDownloadCalls
          /\ UNCHANGED notClosed]_vars

\* Close has been called twice on a cursor that holds rows
C14_Witness ==
    /\ Len(closed) = 2
    /\ result.rows = ResultModeGzipDL
    /\ downloadedRows.alloc
    /\ Len(downloadedRows.data) > 0

\* init has returned nil
InitSucceeded == ipc = "done" /\ iret = Nil

\* C15: when init returns success, the column metadata has been fetched by
\* exactly one call, the one writer of the row buffer has fetched every
\* listed object once and the buffer holds all their rows, and both
\* background operations have sent their signal and ended, so that neither
\* writes to the buffer or the metadata afterwards.
C15_ReadyAfterBothCompleted ==
    InitSucceeded =>
        /\ tableCalls = 1
        /\ ctasTableColumns = Columns
        /\ fetched = listing
        /\ downloadedRows.data = RowsOf(listing)
        /\ dpc = "done" /\ dres = Nil
        /\ tpc = "done"
        /\ sent = [dl |-> <<Nil>>, tbl |-> <<Nil>>]
        /\ errCh = <<>>

\* init has returned a cursor over the rows of two objects
C15_Witness ==
    /\ InitSucceeded
    /\ result.rows = ResultModeGzipDL
    /\ listing = <<T1, T2>>
    /\ Len(downloadedRows.data) = 5
    /\ tableCalls = 1

\* init has left its loop or returned
InitLeftLoop == ipc \in {"afterDownload", "dropStart", "dropWait", "ret", "done"}

\* C16: an error init receives from one of the two operations ends the loop
\* at once and is the error init returns, whatever the other operation
\* reports (its signal is never received); init returns nil only after both
\* operations have reported success, so it fails whenever either has
\* reported an error.
C16_FirstObservedErrorWins ==
    /\ \A k \in 1..Len(received) :
          received[k] # Nil =>
              /\ k = Len(received)
              /\ received[k] \in {sent.dl[j] : j \in 1..Len(sent.dl)}
                                 \cup {sent.tbl[j] : j \in 1..Len(sent.tbl)}
              /\ ipc \in {"ret", "done"}
              /\ iret = received[k]
              /\ pc = "done" => result = [rows |-> Nil, err |-> received[k]]
    /\ Len(received) <= 2
    /\ (ipc \in {"ret", "done"} /\ iret = Nil) =>
          /\ received = <<Nil, Nil>>
          /\ sent = [dl |-> <<Nil>>, tbl |-> <<Nil>>]

\* the metadata fetch failed first and init returned its error, while the
\* download went on and reported success afterwards
C16_Witness ==
    /\ ipc = "done"
    /\ received = <<MetadataErr>>
    /\ iret = MetadataErr
    /\ sent.dl = <<Nil>>
    /\ errCh = <<Nil>>

\* init has returned
InitReturned == ipc \in {"ret", "done"}

\* C17: init leaves its loop only with two signals received, or on a
\* received error, or with the deadline elapsed; when the deadline elapses
\* with an operation that has not reported, init returns the deadline
\* error; when both operations had reported success before the deadline
\* elapsed, init does not return the deadline error.
C17_DeadlineOrTwoSignals ==
    /\ InitLeftLoop =>
          \/ received = <<Nil, Nil>>
          \/ received # <<>> /\ Last(received) # Nil
          \/ atDeadline.elapsed
    /\ (InitReturned /\ atDeadline.elapsed
           /\ (atDeadline.sent.dl = <<>> \/ atDeadline.sent.tbl = <<>>)) =>
          iret = ContextDeadlineExceeded
    /\ (InitReturned /\ atDeadline.elapsed
           /\ atDeadline.sent = [dl |-> <<Nil>>, tbl |-> <<Nil>>]) =>
          iret # ContextDeadlineExceeded

\* what holds of the two goroutines' sends at every moment
SendsOnceUnblocked ==
    /\ Len(sent.dl) <= 1
    /\ Len(sent.tbl) <= 1
    /\ dpc = "done" => Len(sent.dl) = 1
    /\ tpc = "done" => Len(sent.tbl) = 1
    /\ dpc = "send" => Len(errCh) < ErrChCap
    /\ tpc = "send" => Len(errCh) < ErrChCap

\* C18: each of the two background operations sends one signal, never a
\* second one, finds room in the channel whenever it is about to send, and
\* once started comes to its end, whether init is still receiving or has
\* returned on an error or on the deadline.
C18_OneSignalThenEnd ==
    /\ []SendsOnceUnblocked
    /\ (dpc # "idle") ~> (dpc = "done")
    /\ (tpc # "idle") ~> (tpc = "done")

\* both operations sent their signal after init had returned on the deadline
\* without receiving any
C18_Witness ==
    /\ ipc = "done"
    /\ iret = ContextDeadlineExceeded
    /\ received = <<>>
    /\ atDeadline.sent = NoneSent
    /\ dpc = "done" /\ tpc = "done"
    /\ Len(errCh) = 2

\* C19: when the cleanup callback returns an error (its DROP TABLE was not
\* accepted, or awaiting it failed) after both fetch operations succeeded,
\* init returns that error and runQuery returns it with no cursor, although
\* the rows are in the buffer.
C19_CleanupErrorReturned ==
    /\ Len(ended.cleanup) <= 1
    /\ (ended.cleanup # <<>> /\ ended.cleanup[1] # Nil) =>
          /\ received = <<Nil, Nil>>
          /\ downloadedRows.data = RowsOf(listing)
          /\ InitReturned
          /\ iret = ended.cleanup[1]
          /\ result.rows = Nil
          /\ pc = "done" => result.err = ended.cleanup[1]

\* awaiting the DROP TABLE ended in Failed and runQuery returned its reason,
\* with five rows downloaded
C19_Witness ==
    /\ pc = "done"
    /\ ended.cleanup = <<Reason1>>
    /\ result = [rows |-> Nil, err |-> Reason1]
    /\ Len(downloadedRows.data) = 5

\* the DROP TABLE texts among the submitted ones
DropsSubmitted == {k \in 1..Len(submitted) : submitted[k] = DropText(TmpTable)}

\* C20: when the submit of the CTAS text or awaiting it returns an error (the
\* submit failed; the execution ended Failed or Cancelled; a status check
\* failed; the caller's context was done), runQuery returns that error, no
\* cursor is built (init and its goroutines never start), and the cleanup
\* is not invoked and no DROP TABLE is submitted; in every execution the
\* cleanup is invoked at most once.
C20_NoCleanupWithoutTable ==
    /\ afterDownloadCalls <= 1
    /\ Cardinality(DropsSubmitted) <= 1
    /\ Len(ended.ctas) <= 1
    /\ (ended.ctas # <<>> /\ ended.ctas[1] # Nil) =>
          /\ pc = "done"
          /\ result = [rows |-> Nil, err |-> ended.ctas[1]]
          /\ ipc = "idle" /\ dpc = "idle" /\ tpc = "idle"
          /\ afterDownloadCalls = 0
          /\ ended.cleanup = <<>>
          /\ submitted = <<CtasText(TmpTable, callerQuery)>>

\* awaiting the CTAS query ended in Failed and runQuery returned its reason
C20_Witness ==
    /\ pc = "done"
    /\ afterDownload
    /\ ended.ctas = <<Reason1>>
    /\ result = [rows |-> Nil, err |-> Reason1]
    /\ submitted = <<CtasText(TmpTable, callerQuery)>>

\* the calls of Next that returned a row
Served(r) == r.err = Nil

RowsServed == SelectSeq(nexts, Served)

\* C21: on a returned cursor whose buffer holds n rows, the rows the calls
\* of Next have returned are the first rows of the buffer in buffer order,
\* one per successful call; the offset is the number of successful calls
\* (so a failed conversion leaves it alone) and never exceeds n; the buffer
\* stays what the download left; after a call has returned EOF every later
\* call returns EOF.
C21_NextDrainsInOrder ==
    (result.rows = ResultModeGzipDL /\ downloadedRows.alloc) =>
        /\ downloadedRows.data = RowsOf(listing)
        /\ downloadedRows.cursor <= Len(downloadedRows.data)
        /\ downloadedRows.cursor = Len(RowsServed)
        /\ \A k \in 1..Len(RowsServed) : RowsServed[k].row = downloadedRows.data[k]
        /\ \A j \in 1..Len(nexts) : \A k \in j..Len(nexts) :
              nexts[j].err = EOF => nexts[k].err = EOF
        /\ \A k \in 1..Len(nexts) :
              nexts[k].err = EOF => downloadedRows.cursor = Len(downloadedRows.data)

\* all five rows were returned, one call failed on conversion on the way, and
\* EOF was returned twice
C21_Witness ==
    /\ result.rows = ResultModeGzipDL
    /\ Len(downloadedRows.data) = 5
    /\ downloadedRows.cursor = 5
    /\ \E k \in 1..Len(nexts) : nexts[k].err = ConvertErr
    /\ Len(nexts) >= 2
    /\ nexts[Len(nexts)].err = EOF
    /\ nexts[Len(nexts) - 1].err = EOF

\* C22: on a cursor returned after a manifest that lists no data object, the
\* first call of Next returns EOF.
C22_EmptyManifestIsEmptyCursor ==
    (result.rows = ResultModeGzipDL /\ manifest = <<>> /\ nexts # <<>>) =>
        nexts[1] = NextRet(EOF, <<>>)

\* C23: PrepareContext calls Close only on a statement that was created: when
\* the caller's context is done while the PREPARE query is submitted or
\* awaited, so that prepareContext returns nil and an error, PrepareContext
\* returns an error without calling Close on the nil statement and without
\* a fault.
C23_CloseOnlyOnCreatedStatement ==
    /\ \A k \in 1..Len(stmtCloses) : stmtCloses[k] = StmtAthena
    /\ (pc = "done" /\ stmt = Nil) =>
          /\ prepared.stmt = Nil
          /\ prepared.err \in {ctxErr, perr} \ {Nil}

====
